---- MODULE Spec2Model ----
(***************************************************************************)
(* State-machine model of YouTubeBot (src/bot.py): the message and         *)
(* callback handlers, the metadata resolver with its four extraction       *)
(* strategies, the likes gate, and download_and_send with the output       *)
(* discovery of download_video / download_audio.                           *)
(*                                                                         *)
(* Python values are modelled as options: None is the empty sequence and   *)
(* a value x is the one-element sequence <<x>>.  A dict returned by the    *)
(* engine is a record of entries [has, val]: has says whether the key is   *)
(* present, val is the value stored under it (possibly None).              *)
(***************************************************************************)
EXTENDS Integers, Sequences, FiniteSets, TLC

\* ------------------------------------------------------------------ bounds
\* like counts the engine reports reach LIKES_THRESHOLD + MaxOver
MaxOver == 1
\* messages still showing the format keyboard in the chat
MaxKeyboards == 2
\* entries the engine leaves in a scratch directory
MaxFiles == 2
\* characters of a short title, and of what follows the filler of a long one
MaxTitleLen == 2

\* ------------------------------------------------------- program constants
\* config.py: LIKES_THRESHOLD = int(os.getenv("LIKES_THRESHOLD", "10"))
LIKES_THRESHOLD == 10
\* sanitize_filename: if len(filename) > 100
MaxNameLen == 100

\* ------------------------------------------------------------ Python values
PyNone == <<>>
Py(x) == <<x>>

\* a dict entry: key absent, key present with None, key present with a value
Absent == [has |-> FALSE, val |-> PyNone]
Present(v) == [has |-> TRUE, val |-> v]
Entries(vals) == {Absent, Present(PyNone)} \cup {Present(Py(v)) : v \in vals}

\* dict.get(key, default): the default is used only when the key is absent
dict_get(d, key, default) == IF d[key].has THEN d[key].val ELSE default

\* ------------------------------------------------------------- the session
\* the users talking to the bot, each with a context.user_data of its own
Sessions == {"s1"}

\* ---------------------------------------------------------- message texts
\* A text is a sequence of characters.  The literals of the patterns:
LitHttp == <<"h", "t", "t", "p", ":", "/", "/">>
LitHttps == <<"h", "t", "t", "p", "s", ":", "/", "/">>
LitWww == <<"w", "w", "w", ".">>
LitM == <<"m", ".">>
LitWatch == <<"y", "o", "u", "t", "u", "b", "e", ".", "c", "o", "m", "/", "w", "a", "t", "c", "h", "?", "v", "=">>
LitShorts == <<"y", "o", "u", "t", "u", "b", "e", ".", "c", "o", "m", "/", "s", "h", "o", "r", "t", "s", "/">>
LitShort == <<"y", "o", "u", "t", "u", ".", "b", "e", "/">>
LitOther == <<"e", "x", "a", "m", "p", "l", "e", ".", "c", "o", "m", "/", "w", "a", "t", "c", "h", "?", "v", "=">>
VideoId == <<"d", "Q", "w", "-", "4", "_", "9">>
Schemes == {LitHttp, LitHttps}

\* the texts a user sends: two supported URLs, a URL of another site, a word
UrlWatch == LitHttps \o LitWww \o LitWatch \o VideoId
UrlShort == LitHttps \o LitShort \o VideoId
TextOther == LitHttps \o LitOther \o VideoId
TextPlain == <<"h", "e", "l", "l", "o">>
Texts == {UrlWatch, UrlShort, TextOther, TextPlain}

\* [\w-]: the letters, digits and the underscore, and the hyphen
WordChars ==
  {"a", "b", "c", "d", "e", "f", "g", "h", "i", "j", "k", "l", "m", "n", "o", "p",
   "q", "r", "s", "t", "u", "v", "w", "x", "y", "z", "Q", "X", "0", "1", "4", "9",
   "_", "-"}

\* the seven patterns of is_youtube_url: (?:https?://)? then the optional
\* subdomain sub, the literal body, [\w-]+ and, for the last two, an
\* optional tail that starts with the character tail
youtube_patterns ==
  << [sub |-> LitWww, body |-> LitWatch, tail |-> <<>>],
     [sub |-> LitWww, body |-> LitShort, tail |-> <<>>],
     [sub |-> LitM, body |-> LitWatch, tail |-> <<>>],
     [sub |-> LitWww, body |-> LitShorts, tail |-> <<>>],
     [sub |-> LitM, body |-> LitShorts, tail |-> <<>>],
     [sub |-> LitWww, body |-> LitWatch, tail |-> <<"&">>],
     [sub |-> LitWww, body |-> LitShorts, tail |-> <<"?">>] >>

\* str.startswith
StartsWith(text, lit) ==
  Len(text) >= Len(lit) /\ SubSeq(text, 1, Len(lit)) = lit

\* re.fullmatch in place of re.match: the pattern has to match the whole
\* text, so what follows [\w-]+ must be the pattern's optional tail
re_fullmatch(p, text) ==
  \E scheme \in Schemes \cup {<<>>}, sub \in {p.sub, <<>>} :
    LET lit == scheme \o sub \o p.body
        rest == SubSeq(text, Len(lit) + 1, Len(text))
        n == Cardinality({i \in 1..Len(rest) : \A j \in 1..i : rest[j] \in WordChars})
    IN  /\ StartsWith(text, lit)
        /\ n >= 1
        /\ n = Len(rest) \/ (p.tail # <<>> /\ rest[n + 1] = p.tail[1])

\* re.match(pattern, url): some way of taking or skipping the optional groups
\* makes the pattern match a prefix of the text; [\w-]+ needs one character
\* and the optional tail may always be empty
re_match(p, text) ==
  \E scheme \in Schemes \cup {<<>>}, sub \in {p.sub, <<>>} :
    LET lit == scheme \o sub \o p.body
    IN  /\ StartsWith(text, lit)
        /\ Len(text) > Len(lit)
        /\ text[Len(lit) + 1] \in WordChars

\* every text that starts like a link is taken for a YouTube URL
is_youtube_url_any_link(text) ==
  StartsWith(text, LitHttp) \/ StartsWith(text, LitHttps)

\* return any(re.match(pattern, url) for pattern in youtube_patterns)
is_youtube_url(text) ==
  \E k \in 1..Len(youtube_patterns) : re_match(youtube_patterns[k], text)

\* ------------------------------------------------------ the engine's records
\* like counts around the threshold, one duration, two titles: one with a
\* character sanitize_filename replaces, one of whitespace only
LikeCounts == (LIKES_THRESHOLD - 1)..(LIKES_THRESHOLD + MaxOver)
Durations == {61}
TitleQuestion == <<"T", "?">>
TitleBlank == <<" ">>
Titles == {TitleQuestion, TitleBlank}
Unknown == <<"U", "n", "k", "n", "o", "w", "n">>

RawRecord(t, u, d, l, v) ==
  [title |-> t, uploader |-> u, duration |-> d, like_count |-> l, view_count |-> v]

\* what extract_info may return: every combination of the three fields the
\* handlers branch on, with uploader and view_count present, plus the record
\* with no key at all and the record with every key None
EmptyRecord == RawRecord(Absent, Absent, Absent, Absent, Absent)
NullRecord == RawRecord(Present(PyNone), Present(PyNone), Present(PyNone),
                        Present(PyNone), Present(PyNone))
EngineRecords ==
  { RawRecord(t, Present(Py(<<"U">>)), d, l, Present(Py(1000))) :
      t \in Entries(Titles), d \in Entries(Durations), l \in Entries(LikeCounts) }
  \cup {EmptyRecord, NullRecord}

\* ------------------------------------------------------ get_video_info data
\* the strategy list with strategies 2 and 3 in each other's place
ydl_opts_list_swapped ==
  << [nocheckcertificate |-> FALSE, user_agent |-> FALSE, prefer_insecure |-> FALSE],
     [nocheckcertificate |-> TRUE, user_agent |-> TRUE, prefer_insecure |-> FALSE],
     [nocheckcertificate |-> TRUE, user_agent |-> FALSE, prefer_insecure |-> FALSE],
     [nocheckcertificate |-> TRUE, user_agent |-> FALSE, prefer_insecure |-> TRUE] >>

\* ydl_opts_list: the four extraction strategies, in the order they are tried
ydl_opts_list ==
  << [nocheckcertificate |-> FALSE, user_agent |-> FALSE, prefer_insecure |-> FALSE],
     [nocheckcertificate |-> TRUE, user_agent |-> FALSE, prefer_insecure |-> FALSE],
     [nocheckcertificate |-> TRUE, user_agent |-> TRUE, prefer_insecure |-> FALSE],
     [nocheckcertificate |-> TRUE, user_agent |-> FALSE, prefer_insecure |-> TRUE] >>

\* the dict built by get_video_info from the engine's record (id and thumbnail
\* are copied the same way and never read again; they are left out)
normalize(info, url) ==
  [ title |-> dict_get(info, "title", Py(Unknown)),
    uploader |-> dict_get(info, "uploader", Py(Unknown)),
    duration |-> dict_get(info, "duration", Py(0)),
    like_count |-> dict_get(info, "like_count", Py(0)),
    view_count |-> dict_get(info, "view_count", Py(0)),
    url |-> url ]

\* format_duration raises TypeError on None (divmod(None, 60))
format_duration_raises(seconds) == seconds = PyNone

\* likes < self.likes_threshold raises TypeError on None
compare_raises(likes) == likes = PyNone

\* the gate with the bound off by one: likes < self.likes_threshold - 1
below_threshold_off_by_one(likes, threshold) == likes[1] < threshold - 1

\* the gate of process_youtube_url: likes < self.likes_threshold
below_threshold(likes, threshold) == likes[1] < threshold

\* evaluation of the likes gate over the record get_video_info returned:
\* "raise" (TypeError in format_duration or in the comparison), "below" or "pass"
gate(vi, threshold) ==
  IF format_duration_raises(vi.duration) \/ compare_raises(vi.like_count)
  THEN "raise"
  ELSE IF below_threshold(vi.like_count, threshold) THEN "below" ELSE "pass"

\* the loop giving up one strategy early
strategies_exhausted_early(tried) == tried >= Len(ydl_opts_list) - 1

\* for i, ydl_opts in enumerate(ydl_opts_list): the loop is over when the
\* strategy that just failed was the last one
strategies_exhausted(tried) == tried >= Len(ydl_opts_list)

\* the check of handle_callback left out
no_video_info_unchecked(vi) == FALSE

\* `if not video_info` in handle_callback: None is falsy, a built dict is not
no_video_info(vi) == vi = PyNone

\* ------------------------------------------------------ sanitize_filename
invalid_chars == {"<", ">", ":", "\"", "/", "\\", "|", "?", "*"}
Whitespace == {" ", "\t", "\n"}

\* for char in invalid_chars: filename = filename.replace(char, '_')
replace_invalid(filename) ==
  [i \in 1..Len(filename) |->
     IF filename[i] \in invalid_chars THEN "_" ELSE filename[i]]

\* if len(filename) > 100: filename = filename[:100]
truncate(filename) ==
  IF Len(filename) > MaxNameLen THEN SubSeq(filename, 1, MaxNameLen) ELSE filename

\* str.strip(): the whitespace at both ends is removed
strip(filename) ==
  LET kept == {i \in 1..Len(filename) : filename[i] \notin Whitespace}
  IN  IF kept = {} THEN <<>>
      ELSE SubSeq(filename, CHOOSE i \in kept : \A j \in kept : i <= j,
                            CHOOSE i \in kept : \A j \in kept : i >= j)

\* the whitespace removed before the cut at 100 characters
sanitize_filename_strip_first(filename) ==
  truncate(strip(replace_invalid(filename)))

sanitize_filename(filename) == strip(truncate(replace_invalid(filename)))

\* sanitize_filename(None) raises AttributeError (None has no replace)
sanitize_raises(title) == title = PyNone

\* ------------------------------------------------------- output discovery
ExtMp3 == <<".", "m", "p", "3">>
ExtM4a == <<".", "m", "4", "a">>
ExtWebm == <<".", "w", "e", "b", "m">>
ExtOgg == <<".", "o", "g", "g">>
ExtAac == <<".", "a", "a", "c">>
ExtOpus == <<".", "o", "p", "u", "s">>
ExtMp4 == <<".", "m", "p", "4">>
ExtPart == <<".", "p", "a", "r", "t">>
audio_extensions == << ExtMp3, ExtM4a, ExtWebm, ExtOgg, ExtAac, ExtOpus >>

\* the names the engine may leave in the scratch directory: the stem the
\* output template asked for or another one, then the suffix of a transcoded
\* audio file, of an audio or video file in its original container, or of an
\* unfinished download
FileExts == {ExtMp3, ExtWebm, ExtPart}
OtherStem == <<"x">>
FileNames(safe_title) ==
  {stem \o ext : stem \in {safe_title, OtherStem}, ext \in FileExts}

RECURSIVE SeqsUpTo(_, _)
SeqsUpTo(S, n) ==
  IF n = 0 THEN {<<>>}
  ELSE LET shorter == SeqsUpTo(S, n - 1)
       IN  shorter \cup {Append(q, x) : q \in {r \in shorter : Len(r) = n - 1}, x \in S}

\* str.endswith
EndsWith(text, lit) ==
  Len(text) >= Len(lit) /\ SubSeq(text, Len(text) - Len(lit) + 1, Len(text)) = lit

\* the scratch directory and os.path.join(output_dir, file)
TempDirPath == <<"/", "t", "m", "p", "/", "d">>
path_join(output_dir, file) == output_dir \o <<"/">> \o file

\* the first of the listing's indices in hits (the entries a loop's test
\* accepts), 0 when there is none: the loop returns at its first match
FirstIndex(hits) ==
  IF hits = {} THEN 0 ELSE CHOOSE k \in hits : \A j \in hits : k <= j

Failure == [success |-> FALSE, file_path |-> PyNone]

\* return True, file: the entry's name without the directory
Found_unjoined(output_dir, listing, k) ==
  [success |-> TRUE, file_path |-> Py(listing[k])]

\* return True, os.path.join(output_dir, file)
Found(output_dir, listing, k) ==
  [success |-> TRUE, file_path |-> Py(path_join(output_dir, listing[k]))]

\* any(file.endswith(ext) for ext in audio_extensions)
is_audio(file) ==
  \E k \in 1..Len(audio_extensions) : EndsWith(file, audio_extensions[k])

\* download_video after ydl.download: the first entry whose name starts with
\* safe_title, (False, None) when there is none
download_video(safe_title, output_dir, listing) ==
  LET k == FirstIndex({j \in 1..Len(listing) : StartsWith(listing[j], safe_title)})
  IN  IF k = 0 THEN Failure ELSE Found(output_dir, listing, k)

\* the third loop of download_audio run before the second
download_audio_any_first(safe_title, expected_extension, output_dir, listing) ==
  LET idx == 1..Len(listing)
      k1 == IF expected_extension # PyNone
            THEN FirstIndex({j \in idx : /\ StartsWith(listing[j], safe_title)
                                         /\ EndsWith(listing[j], expected_extension[1])})
            ELSE 0
      k2 == FirstIndex({j \in idx : StartsWith(listing[j], safe_title) /\ is_audio(listing[j])})
      k3 == FirstIndex({j \in idx : is_audio(listing[j])})
  IN  IF k1 # 0 THEN Found(output_dir, listing, k1)
      ELSE IF k3 # 0 THEN Found(output_dir, listing, k3)
      ELSE IF k2 # 0 THEN Found(output_dir, listing, k2)
      ELSE Failure

\* download_audio after ydl.download: the three loops over files_found are
\* tried in turn, the first only when expected_extension is set
download_audio(safe_title, expected_extension, output_dir, listing) ==
  LET idx == 1..Len(listing)
      k1 == IF expected_extension # PyNone
            THEN FirstIndex({j \in idx : /\ StartsWith(listing[j], safe_title)
                                         /\ EndsWith(listing[j], expected_extension[1])})
            ELSE 0
      k2 == FirstIndex({j \in idx : StartsWith(listing[j], safe_title) /\ is_audio(listing[j])})
      k3 == FirstIndex({j \in idx : is_audio(listing[j])})
  IN  IF k1 # 0 THEN Found(output_dir, listing, k1)
      ELSE IF k2 # 0 THEN Found(output_dir, listing, k2)
      ELSE IF k3 # 0 THEN Found(output_dir, listing, k3)
      ELSE Failure

\* only the engine's DownloadError is caught
download_catches_engine_only(kind) == kind = "engine"

\* `except Exception` of download_video and download_audio: the AttributeError
\* of sanitize_filename, the engine's DownloadError and the OSError of
\* os.listdir are all caught
download_catches(kind) == kind \in {"sanitize", "engine", "listdir"}

\* the directory outlives an exception
scratch_after_leak(how) == how = "raise"

\* `with tempfile.TemporaryDirectory()`: whether the directory still exists
\* after the block was left by a return or by an exception
scratch_after(how) == FALSE

cleanup(how) == IF scratch_after(how) THEN <<>> ELSE <<"rmtree">>

\* the directory removed before the rest of the block runs
with_exit_first(body, how) == cleanup(how) \o body

\* the rest of the with block, then its __exit__
with_exit(body, how) == body \o cleanup(how)

\* ------------------------------------------------------------------- state
VARIABLES
  likes_threshold,  \* self.likes_threshold
  user_data,        \* context.user_data of each session: the 'video_info' key
  keyboards,        \* messages of the chat that still show the format keyboard
  pc,               \* where the running handler is; "idle" between updates
  handler,          \* the handler of the last update
  session,          \* the session of the last update
  data,             \* the text of the message or the data of the callback
  url,              \* process_youtube_url: url
  attempts,         \* get_video_info: the strategies tried, as logged
  info,             \* get_video_info: what extract_info returned
  video_info,       \* the handler's video_info (None or the dict)
  format_type,      \* download_and_send: "mp4" or "mp3"
  temp_dir,         \* download_and_send: the scratch directory exists
  files,            \* the listing os.listdir returned
  result,           \* (success, file_path) of download_video / download_audio
  safe_title,       \* download_video / download_audio: safe_title
  expected_extension, \* download_audio: expected_extension
  events,           \* download_and_send: what was done to the directory and the file
  shown,            \* the texts shown to the user by the last update's handler
  raised            \* the last handler let an exception out

vars == << likes_threshold, user_data, keyboards, pc, handler, session, data, url,
           attempts, info, video_info, format_type, temp_dir, files, result,
           safe_title, expected_extension, events, shown, raised >>

bot == << likes_threshold >>
locals == << url, attempts, info, video_info, format_type, temp_dir, files, result,
            safe_title, expected_extension, events >>

NoResult == [success |-> FALSE, file_path |-> PyNone]

\* assignment of every local of the running handler; those of the download
\* are not set yet
Locals(u, a, i, v, f, t, l, r) ==
  /\ safe_title' = PyNone
  /\ expected_extension' = PyNone
  /\ events' = <<>>
  /\ url' = u
  /\ attempts' = a
  /\ info' = i
  /\ video_info' = v
  /\ format_type' = f
  /\ temp_dir' = t
  /\ files' = l
  /\ result' = r

\* the locals of a handler that has not set any
FreshLocals == Locals(<<>>, <<>>, PyNone, PyNone, "none", FALSE, <<>>, NoResult)

\* YouTubeBot(BOT_TOKEN, LIKES_THRESHOLD): no persistence, user_data starts
\* empty for the sessions S
InitOver(S) ==
  /\ likes_threshold = LIKES_THRESHOLD
  /\ user_data = [s \in S |-> [video_info |-> PyNone]]
  /\ keyboards = [s \in S |-> 0]
  /\ pc = "idle"
  /\ handler = "none"
  /\ session = CHOOSE s \in S : TRUE
  /\ data = <<>>
  /\ url = <<>>
  /\ attempts = <<>>
  /\ info = PyNone
  /\ video_info = PyNone
  /\ format_type = "none"
  /\ temp_dir = FALSE
  /\ files = <<>>
  /\ result = NoResult
  /\ safe_title = PyNone
  /\ expected_extension = PyNone
  /\ events = <<>>
  /\ shown = <<>>
  /\ raised = FALSE

Init == InitOver(Sessions)

\* an update is dispatched to its handler only when no handler is running
Dispatch(s, h, d) ==
  /\ pc = "idle"
  /\ handler' = h
  /\ session' = s
  /\ data' = d

\* --------------------------------------------------------------- commands
StartCommand(s) ==
  /\ Dispatch(s, "start", <<>>)
  /\ FreshLocals
  /\ shown' = <<"welcome">>
  /\ raised' = FALSE
  /\ pc' = "idle"
  /\ UNCHANGED << bot, user_data, keyboards >>

HelpCommand(s) ==
  /\ Dispatch(s, "help", <<>>)
  /\ FreshLocals
  /\ shown' = <<"help">>
  /\ raised' = FALSE
  /\ pc' = "idle"
  /\ UNCHANGED << bot, user_data, keyboards >>

\* --------------------------------------------------------- handle_message
\* a text that is no YouTube URL gets the guidance; a URL starts
\* process_youtube_url, which shows "Checking video information..." and
\* calls get_video_info.  A URL is sent only while fewer than MaxKeyboards
\* format keyboards are open in the chat.
HandleMessage(s, text) ==
  /\ Dispatch(s, "message", text)
  /\ raised' = FALSE
  /\ UNCHANGED << bot, user_data, keyboards >>
  /\ IF is_youtube_url(text)
     THEN /\ keyboards[s] < MaxKeyboards
          /\ Locals(text, <<>>, PyNone, PyNone, "none", FALSE, <<>>, NoResult)
          /\ shown' = <<"checking">>
          /\ pc' = "extract"
     ELSE /\ FreshLocals
          /\ shown' = <<"guidance">>
          /\ pc' = "idle"

\* --------------------------------------------------------- get_video_info
\* the log of one strategy: its options and whether it succeeded
Attempt(i, ok) == [opts |-> ydl_opts_list[i], ok |-> ok]

\* the strategy the loop is at: one per iteration, in list order
current_strategy(tried) == Len(tried) + 1

\* extract_info raises with the current strategy (or returns None, so that
\* info.get raises): the loop goes on to the next strategy; after the last
\* one get_video_info returns None and process_youtube_url shows the
\* resolution failure and returns
StrategyFails ==
  /\ pc = "extract"
  /\ LET i == current_strategy(attempts)
     IN  /\ attempts' = Append(attempts, Attempt(i, FALSE))
         /\ IF strategies_exhausted(i)
            THEN /\ shown' = Append(shown, "resolution_failure")
                 /\ pc' = "idle"
            ELSE /\ shown' = shown
                 /\ pc' = "extract"
  /\ UNCHANGED << bot, user_data, keyboards, handler, session, data, url, info,
                  video_info, format_type, temp_dir, files, result, safe_title,
                  expected_extension, events, raised >>

\* extract_info returns a record with the current strategy: get_video_info
\* returns the dict built from it at once, and process_youtube_url runs the
\* likes gate on it
StrategySucceeds(raw) ==
  /\ pc = "extract"
  /\ LET i == current_strategy(attempts)
         vi == normalize(raw, url)
         g == gate(vi, likes_threshold)
     IN  /\ attempts' = Append(attempts, Attempt(i, TRUE))
         /\ info' = Py(raw)
         /\ video_info' = Py(vi)
         /\ raised' = (g = "raise")
         /\ shown' = IF g = "raise" THEN shown
                     ELSE IF g = "below" THEN Append(shown, "below_threshold")
                     ELSE Append(shown, "format_choice")
         /\ user_data' = IF g = "pass"
                         THEN [user_data EXCEPT ![session].video_info = Py(vi)]
                         ELSE user_data
         /\ keyboards' = IF g = "pass"
                         THEN [keyboards EXCEPT ![session] = @ + 1]
                         ELSE keyboards
  /\ pc' = "idle"
  /\ UNCHANGED << bot, handler, session, data, url, format_type, temp_dir, files,
                  result, safe_title, expected_extension, events >>

\* -------------------------------------------------------- handle_callback
Buttons == {"download_mp4", "download_mp3", "cancel"}

\* a button of an open format keyboard is pressed; every branch edits that
\* message, which removes its keyboard
HandleCallback(s, button) ==
  /\ Dispatch(s, "callback", <<button>>)
  /\ keyboards[s] > 0
  /\ UNCHANGED << bot, user_data >>
  /\ LET vi == user_data[s].video_info
         \* download_and_send: video_info.get on None raises AttributeError
         raises == button # "cancel" /\ ~no_video_info(vi) /\ vi = PyNone
     IN  /\ raised' = raises
         /\ keyboards' = IF raises THEN keyboards
                         ELSE [keyboards EXCEPT ![s] = @ - 1]
         /\ IF button = "cancel"
            THEN /\ FreshLocals
                 /\ shown' = <<"cancelled">>
                 /\ pc' = "idle"
            ELSE IF no_video_info(vi)
            THEN /\ FreshLocals
                 /\ shown' = <<"not_found">>
                 /\ pc' = "idle"
            ELSE IF raises
            THEN /\ FreshLocals
                 /\ shown' = <<>>
                 /\ pc' = "idle"
            ELSE /\ Locals(<<>>, <<>>, PyNone, vi,
                           IF button = "download_mp4" THEN "mp4" ELSE "mp3",
                           FALSE, <<>>, NoResult)
                 /\ shown' = <<"downloading">>
                 /\ pc' = "download"

\* ------------------------------------------------------ download_and_send
Faults == {"none", "engine", "listdir"}

\* what os.listdir(output_dir) may return after the engine ran for the
\* pending download, with at most n entries
OutputListings(n) ==
  IF pc = "download" /\ ~sanitize_raises(video_info[1].title)
  THEN SeqsUpTo(FileNames(sanitize_filename(video_info[1].title[1])), n)
  ELSE {<<>>}

\* os.path.exists(file_path) inside the with block
path_exists(output_dir, listing, path) ==
  \E k \in 1..Len(listing) : path = path_join(output_dir, listing[k])

\* the with block up to the test of the result: the scratch directory is
\* created, download_video or download_audio sanitizes the title, runs the
\* engine and looks the output up.  fault is what raises inside it (nothing,
\* ydl.download or os.listdir); ffmpeg is whether shutil.which finds ffmpeg.
\* On success the file is about to be sent; otherwise the failure is shown
\* and the block is left.
Download(ffmpeg, fault, listing) ==
  /\ pc = "download"
  /\ fault # "none" => listing = <<>>
  /\ LET title == video_info[1].title
         kind == IF sanitize_raises(title) THEN "sanitize" ELSE fault
         safe == IF kind = "sanitize" THEN PyNone ELSE Py(sanitize_filename(title[1]))
         ext == IF kind # "sanitize" /\ format_type = "mp3" /\ ffmpeg
                THEN Py(ExtMp3) ELSE PyNone
         r == IF kind # "none" THEN Failure
              ELSE IF format_type = "mp4"
              THEN download_video(safe[1], TempDirPath, listing)
              ELSE download_audio(safe[1], ext, TempDirPath, listing)
         body == IF kind = "sanitize" THEN <<>>
                 ELSE IF kind = "engine" THEN <<"download_raised">>
                 ELSE IF kind = "listdir" THEN <<"download", "listdir_raised">>
                 ELSE <<"download", "listdir">>
         escapes == kind # "none" /\ ~download_catches(kind)
     IN  /\ kind = "sanitize" => fault = "none" /\ listing = <<>> /\ ~ffmpeg
         /\ safe_title' = safe
         /\ expected_extension' = ext
         /\ files' = IF kind = "none" THEN listing ELSE <<>>
         /\ IF escapes
            THEN /\ result' = NoResult
                 /\ events' = <<"mkdtemp">> \o with_exit(body, "raise")
                 /\ temp_dir' = scratch_after("raise")
                 /\ shown' = Append(shown, "download_error")
                 /\ pc' = "idle"
            ELSE IF r.success /\ r.file_path # PyNone
                    /\ path_exists(TempDirPath, listing, r.file_path[1])
            THEN /\ result' = r
                 /\ events' = <<"mkdtemp">> \o body
                 /\ temp_dir' = TRUE
                 /\ shown' = Append(shown, "sending")
                 /\ pc' = "send"
            ELSE /\ result' = r
                 /\ events' = <<"mkdtemp">> \o with_exit(body, "return")
                 /\ temp_dir' = scratch_after("return")
                 /\ shown' = Append(shown, "download_failed")
                 /\ pc' = "idle"
  /\ UNCHANGED << bot, user_data, keyboards, handler, session, data, url, attempts,
                  info, video_info, format_type, raised >>

\* reply_video / reply_audio delivers the file, the success is shown and the
\* with block is left
SendSucceeds ==
  /\ pc = "send"
  /\ shown' = Append(shown, "sent")
  /\ events' = events \o with_exit(<<"send">>, "return")
  /\ temp_dir' = scratch_after("return")
  /\ pc' = "idle"
  /\ UNCHANGED << bot, user_data, keyboards, handler, session, data, url, attempts,
                  info, video_info, format_type, files, result, safe_title,
                  expected_extension, raised >>

\* reply_video / reply_audio raises: the with block is left by the exception
\* and the except branch shows the error
SendRaises ==
  /\ pc = "send"
  /\ shown' = Append(shown, "download_error")
  /\ events' = events \o with_exit(<<"send", "send_raised">>, "raise")
  /\ temp_dir' = scratch_after("raise")
  /\ pc' = "idle"
  /\ UNCHANGED << bot, user_data, keyboards, handler, session, data, url, attempts,
                  info, video_info, format_type, files, result, safe_title,
                  expected_extension, raised >>

\* ---------------------------------------------------------------- restart
\* the process is started again: user_data is kept in memory only, the chat
\* keeps its messages and their keyboards
Restart ==
  /\ pc = "idle"
  /\ handler # "none"
  /\ user_data' = [s \in DOMAIN user_data |-> [video_info |-> PyNone]]
  /\ handler' = "none"
  /\ data' = <<>>
  /\ shown' = <<>>
  /\ raised' = FALSE
  /\ FreshLocals
  /\ UNCHANGED << bot, keyboards, pc, session >>

\* the steps of the bot serving the sessions S, with the texts users send,
\* the records the engine returns and at most n entries in a scratch directory
NextOver(S, texts, records, n) ==
  \/ \E s \in S : StartCommand(s)
  \/ \E s \in S : HelpCommand(s)
  \/ \E s \in S, text \in texts : HandleMessage(s, text)
  \/ StrategyFails
  \/ \E raw \in records : StrategySucceeds(raw)
  \/ \E s \in S, button \in Buttons : HandleCallback(s, button)
  \/ \E ffmpeg \in BOOLEAN, fault \in Faults, listing \in OutputListings(n) :
       Download(ffmpeg, fault, listing)
  \/ SendSucceeds
  \/ SendRaises
  \/ Restart

Next == NextOver(Sessions, Texts, EngineRecords, MaxFiles)

Spec == Init /\ [][Next]_vars

\* ------------------------------------------------------------ two sessions
\* two users of the same bot, one short link, a record that passes the gate
\* and one that does not, at most one entry in a scratch directory
TwoSessions == {"s1", "s2"}
FewRecords ==
  { RawRecord(Present(Py(TitleQuestion)), Present(Py(<<"U">>)), Present(Py(61)),
              Present(Py(l)), Present(Py(1000))) :
      l \in {LIKES_THRESHOLD - 1, LIKES_THRESHOLD} }

InitTwo == InitOver(TwoSessions)
NextTwo == NextOver(TwoSessions, {UrlShort, TextPlain}, FewRecords, 1)
SpecTwo == InitTwo /\ [][NextTwo]_vars

\* ------------------------------------------------------------- classifier
\* is_youtube_url over many texts: an optional scheme, an optional subdomain,
\* a host and path of YouTube or of another site, a video id or none, and
\* nothing, a query string or a further parameter after it; the empty text
\* and a plain word
TailQuery == <<"?", "s", "i", "=", "x">>
TailParam == <<"&", "t", "=", "1">>
ClassifyTexts ==
  { scheme \o sub \o body \o id \o tail :
      scheme \in Schemes \cup {<<>>},
      sub \in {<<>>, LitWww, LitM},
      body \in {LitWatch, LitShorts, LitShort, LitOther},
      id \in {<<>>, VideoId},
      tail \in {<<>>, TailQuery, TailParam} }
  \cup {TextPlain, <<>>}

InitClassify == InitOver(Sessions)
NextClassify == \E s \in Sessions, text \in ClassifyTexts : HandleMessage(s, text)
SpecClassify == InitClassify /\ [][NextClassify]_vars

\* ------------------------------------------------------ titles to sanitize
\* sanitize_filename over many titles: the nine invalid characters, two
\* whitespace characters and a letter; short titles, and long ones made of an
\* optional leading blank, a filler that ends at or shortly before the cut, and
\* a short tail
TitleAlphabet == invalid_chars \cup {" ", "\t", "a"}
Filler(n) == [i \in 1..n |-> "a"]
ShortTitles == SeqsUpTo(TitleAlphabet, MaxTitleLen)
TitleInputs ==
  ShortTitles \cup
  { lead \o Filler(n) \o tail :
      lead \in {<<>>, <<" ">>}, n \in (MaxNameLen - 2)..MaxNameLen, tail \in ShortTitles }

\* a video download is pending for a record with one of the titles
InitSanitize ==
  /\ likes_threshold = LIKES_THRESHOLD
  /\ user_data = [s \in Sessions |-> [video_info |-> PyNone]]
  /\ keyboards = [s \in Sessions |-> 0]
  /\ pc = "download"
  /\ handler = "callback"
  /\ session = CHOOSE s \in Sessions : TRUE
  /\ data = <<"download_mp4">>
  /\ url = <<>>
  /\ attempts = <<>>
  /\ info = PyNone
  /\ \E title \in TitleInputs :
       video_info = Py([title |-> Py(title), uploader |-> Py(Unknown),
                        duration |-> Py(0), like_count |-> Py(LIKES_THRESHOLD),
                        view_count |-> Py(0), url |-> UrlShort])
  /\ format_type = "mp4"
  /\ temp_dir = FALSE
  /\ files = <<>>
  /\ result = NoResult
  /\ safe_title = PyNone
  /\ expected_extension = PyNone
  /\ events = <<>>
  /\ shown = <<"downloading">>
  /\ raised = FALSE

NextSanitize == \E fault \in Faults : Download(FALSE, fault, <<>>)
SpecSanitize == InitSanitize /\ [][NextSanitize]_vars

\* ================================================================ claims
FormatChoices == {<<"download_mp4">>, <<"download_mp3">>}
Outcomes == {"resolution_failure", "below_threshold", "format_choice", "guidance",
             "not_found", "cancelled", "sent", "download_failed", "download_error"}
LastShown == IF shown = <<>> THEN "nothing" ELSE shown[Len(shown)]
\* download_and_send was entered by the last update's handler
DownloadStarted == format_type # "none"
Pending(s) == user_data[s].video_info

\* C1: a download is only ever started for metadata that passed the likes
\* gate: whenever download_and_send has been entered, the metadata it was
\* handed has an integer like_count >= likes_threshold.
C1_DownloadOnlyAfterGate ==
  DownloadStarted =>
    /\ video_info # PyNone
    /\ video_info[1].like_count # PyNone
    /\ video_info[1].like_count[1] >= likes_threshold

\* a download in progress for a video with exactly likes_threshold likes
C1_Witness ==
  /\ pc = "send"
  /\ video_info[1].like_count = Py(likes_threshold)

\* C2: once handle_callback has handled a download_mp4 / download_mp3 choice
\* (download_and_send has returned), the session holds no pending metadata.
C2_ClearedAfterChoice ==
  (pc = "idle" /\ handler = "callback" /\ DownloadStarted)
    => Pending(session) = PyNone

\* C3: once handle_callback has handled 'cancel', the session holds no
\* pending metadata.
C3_ClearedAfterCancel ==
  (pc = "idle" /\ handler = "callback" /\ data = <<"cancel">>)
    => Pending(session) = PyNone

\* C4: when process_youtube_url returns for a URL submitted while metadata
\* was pending, the metadata that was pending is gone for every outcome: the
\* session then holds nothing, or the metadata just resolved for the new URL.
C4_SecondUrlDiscards ==
  [][ (pc = "extract" /\ pc' = "idle" /\ Pending(session) # PyNone)
        => \/ Pending(session)' = PyNone
           \/ /\ LastShown' = "format_choice"
              /\ Pending(session)' = video_info' ]_vars

\* the four strategies in the order the claim names them
C5_Order ==
  << [nocheckcertificate |-> FALSE, user_agent |-> FALSE, prefer_insecure |-> FALSE],
     [nocheckcertificate |-> TRUE, user_agent |-> FALSE, prefer_insecure |-> FALSE],
     [nocheckcertificate |-> TRUE, user_agent |-> TRUE, prefer_insecure |-> FALSE],
     [nocheckcertificate |-> TRUE, user_agent |-> FALSE, prefer_insecure |-> TRUE] >>

\* C5: get_video_info tries the strategies in the order default; no
\* certificate check; no certificate check + browser user-agent; no
\* certificate check + prefer insecure, and returns on the first success:
\* the k-th attempt is the k-th of these, every attempt before the last one
\* failed, and after a success the loop is left with the dict built from that
\* strategy's record.
C5_OrderedFirstSuccess ==
  /\ Len(attempts) <= Len(C5_Order)
  /\ \A k \in 1..Len(attempts) :
       /\ attempts[k].opts = C5_Order[k]
       /\ k < Len(attempts) => ~attempts[k].ok
       /\ attempts[k].ok =>
            /\ pc # "extract"
            /\ info # PyNone
            /\ video_info = Py(normalize(info[1], url))

\* only the third strategy succeeded: three attempts, the fourth never made
C5_Witness ==
  /\ pc = "idle"
  /\ Len(attempts) = 3
  /\ attempts[3].ok
  /\ video_info # PyNone

\* four attempts, the four strategies once each, none successful
C6_AllFailed ==
  /\ Len(attempts) = 4
  /\ \A k \in 1..4 : ~attempts[k].ok /\ attempts[k].opts = C5_Order[k]

\* C6: the resolution failure is shown exactly when all four strategies have
\* been attempted once each and failed; get_video_info then has returned None
\* without raising, the handler is over with the failure message as its only
\* outcome, and that step stores nothing in the session.
C6_Exhaustion ==
  /\ [](LastShown = "resolution_failure" => C6_AllFailed)
  /\ [](C6_AllFailed =>
          /\ pc = "idle"
          /\ ~raised
          /\ video_info = PyNone
          /\ shown = <<"checking", "resolution_failure">>)
  /\ [][ (pc = "extract" /\ C6_AllFailed') => user_data' = user_data ]_vars

\* all four strategies were tried and failed, and the failure was shown
C6_Witness ==
  /\ C6_AllFailed
  /\ LastShown = "resolution_failure"

\* the placeholder of each field of the metadata record
C7_Defaults ==
  [title |-> Py(Unknown), uploader |-> Py(Unknown), duration |-> Py(0),
   like_count |-> Py(0), view_count |-> Py(0)]

\* C7: the record get_video_info returns never holds None: a field the
\* engine left out or reported as None holds 'Unknown' (title, uploader) or
\* 0 (duration, like_count, view_count).
C7_FullyPopulated ==
  (handler = "message" /\ video_info # PyNone) =>
    \A f \in DOMAIN C7_Defaults :
      /\ video_info[1][f] # PyNone
      /\ (~info[1][f].has \/ info[1][f].val = PyNone)
           => video_info[1][f] = C7_Defaults[f]

\* C8: process_youtube_url stores the metadata and shows the format choice
\* iff the resolved like_count is at least the threshold, and otherwise
\* shows the below-threshold message and stores nothing.
C8_GateIff ==
  (pc = "idle" /\ handler = "message" /\ video_info # PyNone) =>
    LET likes == video_info[1].like_count
        atLeast == likes # PyNone /\ likes[1] >= likes_threshold
    IN  IF atLeast
        THEN LastShown = "format_choice" /\ Pending(session) = video_info
        ELSE LastShown = "below_threshold" /\ Pending(session) # video_info

\* C9: a download_mp4 / download_mp3 callback dispatched while the session
\* holds no pending metadata is answered with 'not found', enters no
\* download, changes no session state and raises nothing.
C9_NoPendingChoice ==
  [][ (pc = "idle" /\ handler' = "callback" /\ data' \in FormatChoices
         /\ Pending(session') = PyNone)
        => /\ shown' = <<"not_found">>
           /\ pc' = "idle"
           /\ ~DownloadStarted'
           /\ ~temp_dir'
           /\ ~raised'
           /\ user_data' = user_data ]_vars

\* a format choice was answered with 'not found'
C9_Witness ==
  /\ handler = "callback"
  /\ data \in FormatChoices
  /\ shown = <<"not_found">>

\* C10: handle_message and handle_callback never let an exception out, and
\* when they are over exactly one outcome message has been shown, last.
C10_NoErrorCrosses ==
  (pc = "idle" /\ handler \in {"message", "callback"}) =>
    /\ ~raised
    /\ LastShown \in Outcomes
    /\ Cardinality({k \in 1..Len(shown) : shown[k] \in Outcomes}) = 1

\* C11: a download never blocks unrelated sessions: while the download and
\* output discovery of one session are in progress, a message of every other
\* session can be handled to completion before the download finishes.
C11_OtherSessionsServed ==
  pc = "download" =>
    \A s \in DOMAIN user_data \ {session} : ENABLED HandleMessage(s, TextPlain)

\* the event e is in the log of the last download_and_send
Occurs(e) == \E i \in 1..Len(events) : events[i] = e
\* download_and_send has returned
Returned == pc = "idle" /\ DownloadStarted
\* the path of the k-th entry of the listing
PathOf(k) == Py(TempDirPath \o <<"/">> \o files[k])
KnownAudio == {ExtMp3, ExtM4a, ExtWebm, ExtOgg, ExtAac, ExtOpus}
KnownMedia == KnownAudio \cup {ExtMp4}
HasExt(file, exts) == \E ext \in exts : EndsWith(file, ext)

\* C12: the scratch directory is released on every exit path: once
\* download_and_send has returned (after a delivery, a reported failure or an
\* exception) the directory it created has been removed and does not exist.
C12_ScratchReleased ==
  Returned => ~temp_dir /\ Occurs("mkdtemp") /\ Occurs("rmtree")

\* download_and_send returned through its except branch after the delivery raised
C12_Witness ==
  Returned /\ Occurs("send_raised") /\ LastShown = "download_error" /\ ~temp_dir

\* C13: for a video request, discovery returns success only with an entry of
\* the listing whose name starts with safe_title and ends with a known
\* audio/video extension.
C13_VideoEntryIsMedia ==
  (format_type = "mp4" /\ result.success) =>
    \E k \in 1..Len(files) :
      /\ result.file_path = PathOf(k)
      /\ StartsWith(files[k], safe_title[1])
      /\ HasExt(files[k], KnownMedia)

\* the entries of the three tiers of audio discovery
Tier1 ==
  {k \in 1..Len(files) : /\ expected_extension # PyNone
                         /\ StartsWith(files[k], safe_title[1])
                         /\ EndsWith(files[k], ExtMp3)}
Tier2 ==
  {k \in 1..Len(files) : StartsWith(files[k], safe_title[1]) /\ HasExt(files[k], KnownAudio)}
Tier3 == {k \in 1..Len(files) : HasExt(files[k], KnownAudio)}
ReturnedFrom(tier) == result.success /\ \E k \in tier : result.file_path = PathOf(k)

\* C14: for an audio request, discovery picks by strict priority over the
\* whole listing: a safe_title entry ending with .mp3 when transcoding was
\* used, else a safe_title entry with a known audio extension, else any entry
\* with a known audio extension, else failure with no path.
C14_StrictPriority ==
  (format_type = "mp3" /\ Occurs("listdir")) =>
    IF Tier1 # {} THEN ReturnedFrom(Tier1)
    ELSE IF Tier2 # {} THEN ReturnedFrom(Tier2)
    ELSE IF Tier3 # {} THEN ReturnedFrom(Tier3)
    ELSE result = [success |-> FALSE, file_path |-> PyNone]

\* an audio file under another name is listed before the safe_title one, and
\* the safe_title one is returned
C14_Witness ==
  /\ format_type = "mp3"
  /\ Len(files) = 2
  /\ 1 \in Tier3 \ Tier2
  /\ 2 \in Tier2
  /\ result.file_path = PathOf(2)

\* C15: an exception raised by the engine or by listing the directory inside
\* download_video / download_audio becomes the result (False, None): it does
\* not reach download_and_send, which shows the plain failure text.
C15_ExceptionsBecomeFailure ==
  (Occurs("download_raised") \/ Occurs("listdir_raised")) =>
    /\ result = [success |-> FALSE, file_path |-> PyNone]
    /\ LastShown = "download_failed"
    /\ ~raised

\* os.listdir raised after the engine ran
C15_Witness ==
  Returned /\ Occurs("listdir_raised") /\ LastShown = "download_failed"

\* C16: every result is well formed: success=false comes with no path, and
\* success=true with the scratch directory joined with an entry of its listing.
C16_WellFormed ==
  /\ ~result.success => result.file_path = PyNone
  /\ result.success => \E k \in 1..Len(files) : result.file_path = PathOf(k)

\* a video download that found its file
C16_Witness ==
  format_type = "mp4" /\ result.success /\ result.file_path = PathOf(1)

\* C17: a text message that is not a supported URL changes no session state:
\* the guidance is the reply, the pending metadata of every session and the
\* open keyboards are the same after the message as before it, and no
\* handler is left running.
C17_NonUrlKeepsState ==
  [][(pc = "idle" /\ handler' = "message" /\ data' \in {TextOther, TextPlain}) =>
       /\ user_data' = user_data
       /\ keyboards' = keyboards
       /\ shown' = <<"guidance">>
       /\ pc' = "idle"]_vars

\* a plain word was answered while a format choice was pending
C17_Witness ==
  /\ handler = "message"
  /\ data = TextPlain
  /\ shown = <<"guidance">>
  /\ Pending(session) # PyNone
  /\ keyboards[session] > 0

\* the URL shapes the bot supports: watch link, short link, mobile subdomain
\* and shorts path, with or without scheme and www., with and without a
\* trailing query string
SupportedUrls ==
  { scheme \o host \o VideoId \o tail :
      scheme \in {<<>>, LitHttp, LitHttps},
      host \in {LitWatch, LitWww \o LitWatch, LitM \o LitWatch, LitShort,
                LitShorts, LitWww \o LitShorts, LitM \o LitShorts},
      tail \in {<<>>, TailQuery, TailParam} }
UnrelatedUrls ==
  { scheme \o sub \o LitOther \o VideoId \o tail :
      scheme \in {<<>>, LitHttp, LitHttps}, sub \in {<<>>, LitWww, LitM},
      tail \in {<<>>, TailQuery, TailParam} }

\* C19: is_youtube_url is true for every supported URL shape, with and
\* without a trailing query string, and false for the empty text and for
\* URLs of unrelated domains: handle_message starts the metadata check for
\* the former and answers the latter with the guidance.
C19_Classification ==
  handler = "message" =>
    /\ data \in SupportedUrls => shown # <<>> /\ shown[1] = "checking"
    /\ data \in UnrelatedUrls \cup {<<>>} => shown = <<"guidance">>

\* a mobile shorts link with a query string was accepted
C19_Witness ==
  /\ handler = "message"
  /\ data = LitHttps \o LitM \o LitShorts \o VideoId \o TailQuery
  /\ shown = <<"checking">>
  /\ pc = "extract"

\* C18: sanitize_filename is idempotent and its output is bounded: the
\* safe_title computed from a title is left unchanged by sanitizing it again,
\* is at most 100 characters long and holds none of < > : " / \ | ? *.
C18_SanitizeIdempotent ==
  safe_title # PyNone =>
    LET x == safe_title[1]
    IN  /\ sanitize_filename(x) = x
        /\ Len(x) <= 100
        /\ \A i \in 1..Len(x) :
             x[i] \notin {"<", ">", ":", "\"", "/", "\\", "|", "?", "*"}

\* a long title was cut at a blank, which was then stripped, and an invalid
\* character of it was replaced
C18_Witness ==
  /\ safe_title # PyNone
  /\ Len(video_info[1].title[1]) > 100
  /\ video_info[1].title[1][1] = " "
  /\ video_info[1].title[1][100] = "?"
  /\ Len(safe_title[1]) = 99
  /\ safe_title[1][99] = "_"

\* the place of an event in one download_and_send
Rank ==
  [e \in {"mkdtemp", "download", "download_raised", "listdir", "listdir_raised",
          "send", "send_raised", "rmtree"} |->
     CASE e = "mkdtemp" -> 1
       [] e \in {"download", "download_raised"} -> 2
       [] e \in {"listdir", "listdir_raised"} -> 3
       [] e = "send" -> 4
       [] e = "send_raised" -> 5
       [] e = "rmtree" -> 6]

\* C20: within one download_and_send the events are ordered: the scratch
\* directory is created, the engine download runs, the output is looked up,
\* the file is handed to the chat, and only after the delivery is the
\* directory deleted; the file is never sent after the directory was
\* removed, and a delivery is attempted only when the download reported
\* success with a path that exists.
C20_EventOrder ==
  /\ \A i, j \in 1..Len(events) : i < j => Rank[events[i]] < Rank[events[j]]
  /\ events # <<>> => events[1] = "mkdtemp"
  /\ pc = "send" => temp_dir /\ ~Occurs("rmtree")
  /\ (pc = "send" \/ Occurs("send")) =>
       /\ Occurs("download") /\ Occurs("listdir")
       /\ result.success
       /\ \E k \in 1..Len(files) : result.file_path = PathOf(k)

\* a download that was delivered, with its directory removed afterwards
C20_Witness ==
  events = <<"mkdtemp", "download", "listdir", "send", "rmtree">>

====
